---- MODULE Spec2Model ----
(***************************************************************************)
(* Model of the article-discovery engine (scraper.py, playwright_scraper.py)*)
(*                                                                         *)
(* Text values (URLs, titles) are sequences of tokens: a token is a path   *)
(* segment, a separator ("/", "?") or a blank (" "), so that the string    *)
(* operations of the code (split, rstrip, strip, startswith, in) are       *)
(* computed, not assumed.  Dates are day numbers; a day d lies in year     *)
(* d \div DaysPerYear.  A datetime is [day, utc]: the calendar date it      *)
(* carries in its own offset and the calendar date of the same instant in  *)
(* UTC.                                                                    *)
(***************************************************************************)
EXTENDS Integers, Sequences, FiniteSets, TLC

\* ------------------------------------------------------------------ bounds
\* Candidates (links, entries, cards) read in one run, over all sources.
MaxItems == 3
\* Length of a year of the model's calendar, in days.
DaysPerYear == 3
\* <url> elements of a sitemap document given to fetch_sitemap_dates.
MaxUrls == 2

HoursPerDay == 24

\* ------------------------------------------------------- values and sentinels
\* Python's None for a text value, an element or attribute that is absent.
NoneStr == <<"<None>">>
NoElem == <<"<absent>">>
\* feedparser raises AttributeError for entry.<key> when the key is absent.
NoAttr == <<"<no attribute>">>
NoDay == 0 - 1
NoneTs == [day |-> NoDay, utc |-> NoDay]
NoYear == 0 - 1

\* A date text: absent (no tag, no regex match), one dateutil cannot parse,
\* or one that denotes calendar day `day` at an offset that puts the same
\* instant on UTC day `day + shift`.
NoText == [k |-> "none", day |-> 0, shift |-> 0]
BadText == [k |-> "bad", day |-> 0, shift |-> 0]
DateText(d, s) == [k |-> "ok", day |-> d, shift |-> s]

\* `not x` for a text value.
Truthy(s) == s # NoneStr /\ s # <<>>

Min(S) == CHOOSE x \in S : \A y \in S : x <= y

\* ------------------------------------------------------------ str operations
RECURSIVE RStrip(_, _)
RStrip(s, c) ==
  IF Len(s) > 0 /\ s[Len(s)] = c THEN RStrip(SubSeq(s, 1, Len(s) - 1), c) ELSE s

RECURSIVE LStrip(_, _)
LStrip(s, c) ==
  IF Len(s) > 0 /\ s[1] = c THEN LStrip(SubSeq(s, 2, Len(s)), c) ELSE s

\* str.strip(): blanks removed at both ends.
Strip(s) == RStrip(LStrip(s, " "), " ")

\* s.split(c)[0]
SplitFirst(s, c) ==
  LET I == {i \in 1..Len(s) : s[i] = c}
  IN IF I = {} THEN s ELSE SubSeq(s, 1, Min(I) - 1)

StartsWith(s, p) == Len(s) >= Len(p) /\ SubSeq(s, 1, Len(p)) = p
EndsWith(s, p) == Len(s) >= Len(p) /\ SubSeq(s, Len(s) - Len(p) + 1, Len(s)) = p
Contains(s, p) == \E i \in 1..(Len(s) - Len(p) + 1) : SubSeq(s, i, i + Len(p) - 1) = p

\* link.startswith('http'): the first token is a scheme-and-host token.
Hosts == {"A", "G", "U"}
StartsWithHttp(s) == Len(s) > 0 /\ s[1] \in Hosts

\* ------------------------------------------------------------- normalize_url
normalize_url(url) ==
  IF url = NoneStr \/ url = <<>> THEN <<>>
  ELSE RStrip(SplitFirst(url, "?"), "/")

\* ------------------------------------------------------------------- dates
\* dateutil's parser.parse followed by `if tzinfo is None: replace(tzinfo=utc)`;
\* NoneTs stands for the exception the callers catch.
ParseDate(text) ==
  IF text.k = "ok" THEN [day |-> text.day, utc |-> text.day + text.shift]
  ELSE NoneTs

\* (now - timedelta(hours=lookback_hours)).date()
CutoffDate(now_h, lookback_h) == (now_h - lookback_h) \div HoursPerDay

\* The year of the calendar day an hour lies in.
YearOf(now_h) == (now_h \div HoursPerDay) \div DaysPerYear

\* datetime.now().year: the year of the process's local time, which is UTC
\* shifted by the offset of its timezone (from UTC-12 to UTC+14).
TzOffsets == {0 - 12, 0, 14}
LocalYears(now_h) == {YearOf(now_h + tz) : tz \in TzOffsets}

\* ------------------------------------------------------------------ SOURCES
SOURCES ==
  << [name |-> "Anthropic Engineering", type |-> "anthropic",
      base_url |-> <<"A">>, sitemap_url |-> FALSE],
     [name |-> "Google Developers (AI)", type |-> "feed",
      base_url |-> <<>>, sitemap_url |-> TRUE],
     [name |-> "Uber Engineering", type |-> "playwright",
      base_url |-> <<"U">>, sitemap_url |-> FALSE] >>

\* A source of none of the three types is served by the selector-driven
\* branch (the else of the dispatch); SOURCES holds none today.
SelectorSources ==
  << [name |-> "Anthropic News", type |-> "html",
      base_url |-> <<"A">>, sitemap_url |-> FALSE] >>

SourceLists == {SOURCES, SelectorSources}

Article(source_name, title, ts, url) ==
  [source |-> source_name, title |-> title, date |-> ts.day, url |-> url,
   timestamp |-> ts]

\* ------------------------------------------------------ fetch_sitemap_dates
\* A sitemap document: whether the GET and the XML parse succeed, and its <url>
\* entries [loc, lastmod].  loc is NoElem (no <loc> tag), NoneStr (empty tag)
\* or a URL; lastmod is NoTag (no <lastmod> tag), NoText (empty tag: .text is
\* None), BadText or a DateText.
NoTag == [k |-> "notag", day |-> 0, shift |-> 0]
EmptyMap == [u \in {} |-> NoText]

RECURSIVE SitemapEntries(_, _)
SitemapEntries(urls, acc) ==
  IF urls = <<>> THEN acc
  ELSE LET u == Head(urls)
           key == normalize_url(u.loc)
       IN IF Truthy(u.loc) /\ u.lastmod # NoTag
          THEN SitemapEntries(Tail(urls),
                 [x \in (DOMAIN acc) \cup {key} |->
                    IF x = key THEN u.lastmod ELSE acc[x]])
          ELSE SitemapEntries(Tail(urls), acc)

\* url_tag.find('s:loc', ns).text raises AttributeError when the tag is
\* absent; the function's except returns {} for the whole document.
fetch_sitemap_dates(doc) ==
  IF ~doc.ok \/ (\E i \in 1..Len(doc.urls) : doc.urls[i].loc = NoElem)
  THEN EmptyMap
  ELSE SitemapEntries(doc.urls, EmptyMap)

\* ---------------------------------------------------- fetch_title_from_page
\* A detail page: ok (the GET of the caller succeeds), title_ok (the GET of
\* fetch_title_from_page succeeds), og / tw (content of the og:title and
\* twitter:title meta tags, NoElem when the tag or the attribute is absent),
\* h1 / title (text of the first <h1> and of <title>), meta (content of
\* article:published_time), published (the date after "Published" in the text).
\* s.split(sep)[0] for a separator of several tokens.
SplitFirstAt(s, sep) ==
  LET I == {i \in 1..(Len(s) - Len(sep) + 1) : SubSeq(s, i, i + Len(sep) - 1) = sep}
  IN IF I = {} THEN s ELSE SubSeq(s, 1, Min(I) - 1)

\* `if sep in title: title = title.split(sep)[0].strip()`
StripSep(t, sep) ==
  IF Contains(t, sep) THEN Strip(SplitFirstAt(t, sep)) ELSE t

\* for sep in [' | ', ' \\ ', ' - ', ' – ']: each separator is its sign between
\* two blanks; "--" is the dash of the last one.
StripSiteSuffix(t) ==
  StripSep(StripSep(StripSep(StripSep(t, <<" ", "|", " ">>), <<" ", "\\", " ">>),
                    <<" ", "-", " ">>), <<" ", "--", " ">>)

fetch_title_from_page(page) ==
  IF ~page.title_ok THEN NoneStr
  ELSE IF page.og # NoElem /\ page.og # <<>> THEN Strip(page.og)
  ELSE IF page.tw # NoElem /\ page.tw # <<>> THEN Strip(page.tw)
  ELSE IF page.h1 # NoElem THEN Strip(page.h1)
  ELSE IF page.title # NoElem THEN StripSiteSuffix(Strip(page.title))
  ELSE NoneStr

\* The date probes of the detail page: the meta tag, then "Published <date>".
DetailDate(page) ==
  LET m == IF page.meta.k # "none" THEN ParseDate(page.meta) ELSE NoneTs
  IN IF m # NoneTs THEN m
     ELSE IF page.published.k # "none" THEN ParseDate(page.published)
     ELSE NoneTs

\* ----------------------------------------- scrape_anthropic_engineering
\* One link of the listing: href, heading (text of the h1-h4 in the link,
\* NoElem when there is none), date (the month-day-year text in the link).
\* st = [seen, articles]: seen_urls and the articles list.
AnthropicSkipsHref(href) ==
  RStrip(href, "/") \in {<<"/", "engineering">>, <<"/", "engineering", "/">>}

AnthropicCleanUrl(href, base_url) ==
  LET full_url == IF StartsWith(href, <<"/">>) THEN base_url \o href ELSE href
  IN RStrip(SplitFirst(full_url, "?"), "/")

AnthropicListingTitle(link) ==
  IF link.heading = NoElem THEN NoneStr ELSE Strip(link.heading)

AnthropicListingDate(link) ==
  IF link.date.k = "none" THEN NoneTs ELSE ParseDate(link.date)

\* `if not title or not pub_date`: the detail page is fetched.
AnthropicNeedsDetail(link) ==
  ~Truthy(AnthropicListingTitle(link)) \/ AnthropicListingDate(link) = NoneTs

AnthropicTitle(link, page) ==
  LET t == AnthropicListingTitle(link)
  IN IF AnthropicNeedsDetail(link) /\ page.ok /\ ~Truthy(t)
     THEN fetch_title_from_page(page) ELSE t

AnthropicDate(link, page) ==
  LET d == AnthropicListingDate(link)
  IN IF AnthropicNeedsDetail(link) /\ page.ok /\ d = NoneTs
     THEN DetailDate(page) ELSE d

AnthropicLinkStep(st, link, page, source, cutoff) ==
  LET clean_url == AnthropicCleanUrl(link.href, source.base_url)
      title == AnthropicTitle(link, page)
      pub_date == AnthropicDate(link, page)
      seen == [st EXCEPT !.seen = @ \cup {clean_url}]
  IN IF AnthropicSkipsHref(link.href) THEN st
     ELSE IF clean_url \in st.seen THEN st
     ELSE IF ~Truthy(title) THEN seen
     ELSE IF pub_date = NoneTs THEN seen
     ELSE IF pub_date.day >= cutoff
          THEN [seen EXCEPT !.articles =
                  Append(@, Article(source.name, title, pub_date, clean_url))]
          ELSE seen

\* The link, read with seen_urls as in st, has a usable title and a date on or
\* after the cutoff: from the listing alone, or from the detail page the code
\* fetches for it.
AnthropicLinkUsable(st, link, page, source, cutoff) ==
  LET clean_url == AnthropicCleanUrl(link.href, source.base_url)
      title == AnthropicTitle(link, page)
      pub_date == AnthropicDate(link, page)
  IN /\ ~AnthropicSkipsHref(link.href)
     /\ clean_url \notin st.seen \/ ~AnthropicNeedsDetail(link)
     /\ Truthy(title)
     /\ pub_date # NoneTs
     /\ pub_date.day >= cutoff

\* ------------------------------------------------------------ feed branch
\* One feed entry: title and link (NoAttr when the key is absent), published
\* and updated (the day of published_parsed / updated_parsed, NoDay if absent).
FeedEntryRaises(entry) == entry.title = NoAttr \/ entry.link = NoAttr

\* Mutant: the feed branch catches request errors only.
FeedCatches_RequestOnly(exc) == exc = "RequestException"

\* `except Exception` around the feed branch.
FeedCatches(exc) == exc \in {"AttributeError", "RequestException", "Exception"}

FeedNativeDate(entry) ==
  LET date_struct == IF entry.published # NoDay THEN entry.published ELSE entry.updated
  IN IF date_struct # NoDay THEN [day |-> date_struct, utc |-> date_struct] ELSE NoneTs

FeedSitemapDate(entry, sitemap_dates) ==
  LET norm_link == normalize_url(entry.link)
  IN IF norm_link \in DOMAIN sitemap_dates
     THEN ParseDate(sitemap_dates[norm_link]) ELSE NoneTs

\* Mutant: the sitemap is consulted before the entry's own date.
FeedPubDate_SitemapFirst(entry, sitemap_dates) ==
  IF sitemap_dates # EmptyMap /\ FeedSitemapDate(entry, sitemap_dates) # NoneTs
  THEN FeedSitemapDate(entry, sitemap_dates)
  ELSE FeedNativeDate(entry)

FeedPubDate(entry, sitemap_dates) ==
  IF FeedNativeDate(entry) # NoneTs THEN FeedNativeDate(entry)
  ELSE IF sitemap_dates # EmptyMap THEN FeedSitemapDate(entry, sitemap_dates)
  ELSE NoneTs

\* Mutant: the cutoff comparison is lost.
FeedEntryStep_NoCutoff(all, entry, sitemap_dates, source, cutoff) ==
  LET pub_date == FeedPubDate(entry, sitemap_dates)
  IN IF pub_date = NoneTs THEN all
     ELSE Append(all, Article(source.name, entry.title, pub_date, entry.link))

FeedEntryStep(all, entry, sitemap_dates, source, cutoff) ==
  LET pub_date == FeedPubDate(entry, sitemap_dates)
  IN IF pub_date = NoneTs THEN all
     ELSE IF pub_date.day >= cutoff
          THEN Append(all, Article(source.name, entry.title, pub_date, entry.link))
          ELSE all

\* ------------------------------------------------- playwright_scraper.py
\* A date token of the Uber listing: "D Month / Region", with or without a
\* 4-digit year; doy is the day of the year it names.
NoToken == [k |-> "none", doy |-> 0, year |-> NoYear]
BadToken == [k |-> "bad", doy |-> 0, year |-> NoYear]
Token(d, y) == [k |-> "ok", doy |-> d, year |-> y]

parse_uber_date(date_str, current_year) ==
  IF date_str.k # "ok" THEN NoneTs
  ELSE LET y == IF date_str.year = NoYear THEN current_year ELSE date_str.year
           d == y * DaysPerYear + date_str.doy
       IN [day |-> d, utc |-> d]

\* One card: raises (where reading the element raises: "no", at "href", at
\* "text"), href (<<>> when the attribute is absent or empty), heading
\* (inner_text of the h2/h3, NoElem when there is none), date (the token the
\* date pattern matches in the card's text).
UberSkipsHref(href) ==
  \/ Contains(href, <<"/", "blog", "/", "engineering", "/">>)
       /\ EndsWith(href, <<"engineering", "/">>)
  \/ RStrip(href, "/") = <<"/", "blog", "/", "engineering">>

UberCleanUrl(href, base_url) ==
  LET full_url == IF StartsWith(href, <<"/">>) THEN base_url \o href ELSE href
  IN SplitFirst(full_url, "?")

\* The card gets as far as parse_uber_date with a token that has no year, so
\* datetime.now() is read for it.
UberReadsClock(st, card, source) ==
  /\ card.raises = "no"
  /\ card.href # <<>>
  /\ ~UberSkipsHref(card.href)
  /\ UberCleanUrl(card.href, source.base_url) \notin st.seen
  /\ card.heading # NoElem /\ Truthy(Strip(card.heading))
  /\ card.date.k # "none"
  /\ card.date.year = NoYear

UberCardStep(st, card, source, cutoff, current_year) ==
  LET clean_url == UberCleanUrl(card.href, source.base_url)
      title == IF card.heading = NoElem THEN NoneStr ELSE Strip(card.heading)
      pub_date == parse_uber_date(card.date, current_year)
      seen == [st EXCEPT !.seen = @ \cup {clean_url}]
  IN IF card.raises = "href" THEN st
     ELSE IF card.href = <<>> THEN st
     ELSE IF UberSkipsHref(card.href) THEN st
     ELSE IF clean_url \in st.seen THEN st
     ELSE IF ~Truthy(title) THEN seen
     ELSE IF card.raises = "text" THEN seen
     ELSE IF card.date.k = "none" THEN seen
     ELSE IF pub_date = NoneTs THEN seen
     ELSE IF pub_date.day >= cutoff
          THEN [seen EXCEPT !.articles =
                  Append(@, Article(source.name, title, pub_date, clean_url))]
          ELSE seen

\* The card has a link to an article, a heading and a date token that resolves
\* to a date on or after the cutoff.
UberCardUsable(card, source, cutoff, current_year) ==
  LET title == IF card.heading = NoElem THEN NoneStr ELSE Strip(card.heading)
      pub_date == parse_uber_date(card.date, current_year)
  IN /\ card.raises = "no"
     /\ card.href # <<>>
     /\ ~UberSkipsHref(card.href)
     /\ Truthy(title)
     /\ pub_date # NoneTs
     /\ pub_date.day >= cutoff

\* ---------------------------------------------- selector-driven HTML branch
\* One listing element: raises (reading it raises), title (text of the title
\* element, NoElem when absent), date (text of the date element), link (the
\* href, NoneStr when absent), detail (the date text of the detail page's
\* date element, with ok: the GET succeeds, found: the element exists).
HtmlFullLink(link, base_url) ==
  IF Truthy(link) /\ ~StartsWithHttp(link) THEN base_url \o link ELSE link

HtmlDateText(item) ==
  IF item.date.k # "none" THEN item.date
  ELSE IF ~Truthy(item.link) THEN NoText
  ELSE IF ~item.detail.ok \/ ~item.detail.found THEN NoText
  ELSE item.detail.date

HtmlArticleStep(all, item, source, cutoff) ==
  LET title == Strip(item.title)
      pub_date == ParseDate(HtmlDateText(item))
      link == HtmlFullLink(item.link, source.base_url)
  IN IF item.raises \/ item.title = NoElem THEN all
     ELSE IF HtmlDateText(item).k = "none" THEN all
     ELSE IF pub_date = NoneTs THEN all
     ELSE IF pub_date.day >= cutoff
          THEN Append(all, Article(source.name, title, pub_date, link))
          ELSE all

\* `except requests.RequestException` around the listing GET.
HtmlCatches(exc) == exc = "RequestException"


\* `except Exception` in scrape_anthropic_engineering and around its call.
AnthropicCatches(exc) == exc \in {"AttributeError", "RequestException", "Exception"}

\* `except Exception` in scrape_uber_engineering and around scrape_with_playwright.
PlaywrightCatches(exc) == exc \in {"AttributeError", "RequestException", "Exception"}

\* What scrape_uber_engineering returns: the articles, or [] from its except.
PlaywrightResult(articles_, close_ok) == IF close_ok THEN articles_ ELSE <<>>

\* Mutant: the new articles are put in front.
Extend_Front(all, more) == more \o all

\* all_new_articles.extend(...)
Extend(all, more) == all \o more

\* ------------------------------------------------------------- notifier.py
\* The environment of the process: each variable unset (NoneStr), empty or set.
\* outcome is what requests.post / raise_for_status do: "ok", a transport
\* failure or an HTTP error status, both raised as RequestException.
Payload(env, message) ==
  [url |-> <<"bot", env.TELEGRAM_BOT_TOKEN, "sendMessage">>,
   chat_id |-> env.TELEGRAM_CHAT_ID, text |-> message]

\* `except requests.RequestException`
NotifierCatches(exc) == exc = "RequestException"

\* Mutant: only the bot token is required.
send_telegram_notification_TokenOnly(message, env, outcome) ==
  IF ~Truthy(env.TELEGRAM_BOT_TOKEN)
  THEN [ret |-> "False", posts |-> <<>>]
  ELSE IF outcome = "ok"
       THEN [ret |-> "True", posts |-> <<Payload(env, message)>>]
       ELSE [ret |-> IF NotifierCatches("RequestException") THEN "False" ELSE "raised",
             posts |-> <<Payload(env, message)>>]

send_telegram_notification(message, env, outcome) ==
  IF ~Truthy(env.TELEGRAM_BOT_TOKEN) \/ ~Truthy(env.TELEGRAM_CHAT_ID)
  THEN [ret |-> "False", posts |-> <<>>]
  ELSE IF outcome = "ok"
       THEN [ret |-> "True", posts |-> <<Payload(env, message)>>]
       ELSE [ret |-> IF NotifierCatches("RequestException") THEN "False" ELSE "raised",
             posts |-> <<Payload(env, message)>>]

\* ------------------------------------------------------------------ main.py
\* One line of the message per article, after the line with the count.
RECURSIVE ArticleLines(_)
ArticleLines(new_articles) ==
  IF new_articles = <<>> THEN <<>>
  ELSE LET art == Head(new_articles)
       IN <<[title |-> art.title, url |-> art.url, date |-> art.date]>>
          \o ArticleLines(Tail(new_articles))

Message(new_articles) ==
  <<[found |-> Len(new_articles)]>> \o ArticleLines(new_articles)

\* Mutant: main notifies whatever the list holds.
MainNotifies_Always(new_articles) == TRUE

\* `if new_articles:`
MainNotifies(new_articles) == new_articles # <<>>

\* ------------------------------------------------------------------ inputs
Credentials == {NoneStr, <<>>, <<"set">>}
Environments == [TELEGRAM_BOT_TOKEN : Credentials, TELEGRAM_CHAT_ID : Credentials]
PostOutcomes == {"ok", "transport", "status"}
\* The first day of a year, early enough for timezones west of UTC to be in
\* the year before.
NowHours == {6 * HoursPerDay + 5}
Lookbacks == {HoursPerDay, 2 * HoursPerDay}
DateDays == {4, 5}

AnthropicHrefs ==
  { <<"/", "engineering", "/">>,
    <<"/", "engineering", "/", "x">>,
    <<"/", "engineering", "/", "x", "/">>,
    <<"A", "/", "engineering", "/", "x", "?", "q">>,
    <<"/", "engineering", "/", "y">> }

AnthropicLinks ==
  [href : AnthropicHrefs, heading : {NoElem, <<"T">>},
   date : {NoText, BadText} \cup {DateText(d, 0) : d \in DateDays}]

Page(ok, title_ok, og, h1, meta, published) ==
  [ok |-> ok, title_ok |-> title_ok, og |-> og, tw |-> NoElem, h1 |-> h1,
   title |-> NoElem, meta |-> meta, published |-> published]

NoPage == Page(FALSE, FALSE, NoElem, NoElem, NoText, NoText)

DetailPages ==
  { NoPage,
    Page(TRUE, TRUE, <<"D">>, NoElem, DateText(5, 0), NoText),
    Page(TRUE, TRUE, <<"D">>, <<"H">>, DateText(5, 0 - 1), NoText),
    Page(TRUE, TRUE, NoElem, <<" ", "D">>, NoText, DateText(4, 0)),
    Page(TRUE, FALSE, <<"D">>, NoElem, DateText(5, 0), NoText),
    Page(TRUE, TRUE, <<"D">>, NoElem, BadText, NoText),
    Page(TRUE, TRUE, NoElem, NoElem, DateText(5, 0), NoText) }

FeedLinks ==
  { <<"G", "/", "a">>, <<"G", "/", "a", "?", "q">>, <<"G", "/", "b", "/">> }

\* Well-formed entries with every combination of link and native dates, an
\* entry with an empty title, and entries that lack the title or the link key.
FeedEntries ==
  [title : {<<"T">>}, link : FeedLinks,
   published : {NoDay} \cup DateDays, updated : {NoDay, 5}]
  \cup { [title |-> <<>>, link |-> <<"G", "/", "a">>, published |-> 5, updated |-> NoDay],
         [title |-> NoAttr, link |-> <<"G", "/", "a">>, published |-> 5, updated |-> NoDay],
         [title |-> <<"T">>, link |-> NoAttr, published |-> NoDay, updated |-> NoDay] }

Sitemaps ==
  { [ok |-> FALSE, urls |-> <<>>],
    [ok |-> TRUE,
     urls |-> << [loc |-> <<"G", "/", "a", "/">>, lastmod |-> DateText(5, 0 - 1)],
                 [loc |-> <<"G", "/", "b">>, lastmod |-> BadText] >>],
    [ok |-> TRUE,
     urls |-> << [loc |-> <<"G", "/", "a">>, lastmod |-> DateText(4, 0)],
                 [loc |-> NoneStr, lastmod |-> DateText(5, 0)],
                 [loc |-> <<"G", "/", "b">>, lastmod |-> NoTag] >>] }

UberHrefs ==
  { <<>>,
    <<"/", "en", "/", "blog", "/", "engineering", "/">>,
    <<"/", "blog", "/", "x">>,
    <<"/", "blog", "/", "x", "/">>,
    <<"U", "/", "blog", "/", "x", "?", "q">> }

UberCards ==
  [raises : {"no", "href", "text"}, href : UberHrefs, heading : {NoElem, <<"T">>},
   date : {NoToken, BadToken} \cup {Token(d, NoYear) : d \in {0, 1, DaysPerYear - 1}}]

HtmlItems ==
  [raises : BOOLEAN, title : {NoElem, <<>>, <<"T">>},
   date : {NoText, BadText} \cup {DateText(d, 0) : d \in DateDays},
   link : {NoneStr, <<"/", "news", "/", "x">>, <<"A", "/", "news", "/", "x", "?", "q">>},
   detail : { [ok |-> FALSE, found |-> FALSE, date |-> NoText],
              [ok |-> TRUE, found |-> FALSE, date |-> NoText],
              [ok |-> TRUE, found |-> TRUE, date |-> DateText(5, 0)] }]

\* ------------------------------------------------------------------- state
VARIABLES
  now,               \* datetime.now(timezone.utc), in hours
  lookback_hours,
  cutoff_date,
  sources,           \* the SOURCES list of the run
  idx,               \* position of the for loop over the sources
  pc,                \* "dispatch", a strategy's loop, "done", or "raised"
  all_new_articles,
  articles,          \* the articles list of the running scraper function
  seen_urls,
  sitemap_dates,
  n,                 \* candidates read so far
  failed,            \* sources whose strategy ended in its except clause
  dispatched,        \* sources handed to the branch of their type
  shadow,            \* seen_urls / articles of the same listing without the
                     \* links whose detail-page fetch fails
  browser,           \* what scrape_uber_engineering did with its browser:
                     \* "none", "open" (launched), "closed" (browser.close()
                     \* was called, whether or not it returned); what
                     \* Playwright does with a browser
                     \* still open when the `with` block is left is not
                     \* part of the program and is not modelled
  local_year,        \* the year datetime.now() gave parse_uber_date last
  usable,            \* normalized URLs of the listing's links read so far that
                     \* have a usable title and a date on or after the cutoff
  call,              \* a helper function called on its own: [fn, arg, ret]
  calls,             \* messages main passed to send_telegram_notification
  posts,             \* requests.post calls made by the notifier
  sent,              \* what send_telegram_notification returned to main
  reply              \* what main returned

\* The state of main around its call of check_for_new_articles.
caller == <<calls, posts, sent, reply>>

vars == <<now, lookback_hours, cutoff_date, sources, idx, pc, all_new_articles,
          articles, seen_urls, sitemap_dates, n, failed, dispatched, shadow, browser,
          local_year, usable, call, caller>>

\* What no step of check_for_new_articles changes.
run == <<now, lookback_hours, cutoff_date, sources, call, caller>>

NotCalled == "<not called>"
NoReply == [text |-> "<none>", count |-> 0]

NoCall == [fn |-> "none", arg |-> <<>>, ret |-> <<>>]

NoState == [seen |-> {}, articles |-> <<>>]

Init ==
  /\ now \in NowHours
  /\ lookback_hours \in Lookbacks
  /\ cutoff_date = CutoffDate(now, lookback_hours)
  /\ sources \in SourceLists
  /\ idx = 1
  /\ pc = "dispatch"
  /\ all_new_articles = <<>>
  /\ articles = <<>>
  /\ seen_urls = {}
  /\ sitemap_dates = EmptyMap
  /\ n = 0
  /\ failed = {}
  /\ dispatched = {}
  /\ shadow = NoState
  /\ browser = "none"
  /\ local_year = NoYear
  /\ usable = {}
  /\ call = NoCall
  /\ calls = <<>>
  /\ posts = <<>>
  /\ sent = NotCalled
  /\ reply = NoReply

Source == sources[idx]
Dispatching(type) ==
  /\ pc = "dispatch"
  /\ idx <= Len(sources)
  /\ Source.type = type
  /\ dispatched' = dispatched \cup {idx}

\* `continue` / the end of one iteration of `for source in SOURCES`.
NextSource(all) ==
  /\ all_new_articles' = all
  /\ idx' = idx + 1
  /\ pc' = "dispatch"
  /\ articles' = <<>>
  /\ seen_urls' = {}
  /\ sitemap_dates' = EmptyMap
  /\ shadow' = NoState
  /\ usable' = {}

\* An exception leaves check_for_new_articles.
Raised ==
  /\ pc' = "raised"
  /\ UNCHANGED <<idx, all_new_articles, articles, seen_urls, sitemap_dates, shadow, usable>>

\* The strategy of the current source ended in an except clause that leaves
\* `all` as the aggregate, or the exception propagates.
SourceFails(caught, all) ==
  /\ failed' = failed \cup {idx}
  /\ IF caught THEN NextSource(all) ELSE Raised

\* ---- anthropic
AnthropicFetchFails ==
  /\ Dispatching("anthropic")
  /\ \E exc \in {"RequestException", "Exception"} :
       SourceFails(AnthropicCatches(exc), Extend(all_new_articles, <<>>))
  /\ UNCHANGED <<run, local_year, n, browser>>

AnthropicFetch ==
  /\ Dispatching("anthropic")
  /\ pc' = "anthropic"
  /\ articles' = <<>>
  /\ seen_urls' = {}
  /\ shadow' = NoState
  /\ UNCHANGED <<run, local_year, idx, all_new_articles, sitemap_dates, n, failed, browser, usable>>

\* The detail-page fetch of this link is attempted and fails.
DetailFetchFails(st, link, page) ==
  /\ ~AnthropicSkipsHref(link.href)
  /\ AnthropicCleanUrl(link.href, Source.base_url) \notin st.seen
  /\ AnthropicNeedsDetail(link)
  /\ ~page.ok \/ (~Truthy(AnthropicListingTitle(link)) /\ ~page.title_ok)

AnthropicLink ==
  /\ pc = "anthropic"
  /\ UNCHANGED dispatched
  /\ n < MaxItems
  /\ \E link \in AnthropicLinks :
       \E page \in (IF AnthropicNeedsDetail(link) THEN DetailPages ELSE {NoPage}) :
         LET st == [seen |-> seen_urls, articles |-> articles]
             st2 == AnthropicLinkStep(st, link, page, Source, cutoff_date)
         IN /\ seen_urls' = st2.seen
            /\ articles' = st2.articles
            /\ shadow' = IF DetailFetchFails(st, link, page) THEN shadow
                         ELSE AnthropicLinkStep(shadow, link, page, Source, cutoff_date)
            /\ usable' = IF AnthropicLinkUsable(st, link, page, Source, cutoff_date)
                         THEN usable \cup {normalize_url(AnthropicCleanUrl(link.href, Source.base_url))}
                         ELSE usable
  /\ n' = n + 1
  /\ UNCHANGED <<run, local_year, idx, pc, all_new_articles, sitemap_dates, failed, browser>>

AnthropicReturn ==
  /\ pc = "anthropic"
  /\ UNCHANGED dispatched
  /\ NextSource(Extend(all_new_articles, articles))
  /\ UNCHANGED <<run, local_year, n, failed, browser>>

\* ---- feed
FeedParseFails ==
  /\ Dispatching("feed")
  /\ SourceFails(FeedCatches("Exception"), all_new_articles)
  /\ UNCHANGED <<run, local_year, n, browser>>

FeedParse ==
  /\ Dispatching("feed")
  /\ pc' = "feed"
  /\ \E doc \in Sitemaps :
       sitemap_dates' = IF Source.sitemap_url THEN fetch_sitemap_dates(doc) ELSE EmptyMap
  /\ UNCHANGED <<run, local_year, idx, all_new_articles, articles, seen_urls, n, failed, shadow,
                 browser, usable>>

FeedEntryOf(entry) ==
  /\ pc = "feed"
  /\ UNCHANGED dispatched
  /\ n < MaxItems
  /\ IF FeedEntryRaises(entry)
     THEN SourceFails(FeedCatches("AttributeError"), all_new_articles)
     ELSE /\ all_new_articles' =
               FeedEntryStep(all_new_articles, entry, sitemap_dates, Source, cutoff_date)
          /\ UNCHANGED <<idx, pc, articles, seen_urls, sitemap_dates, failed, shadow,
                         usable>>
  /\ n' = n + 1
  /\ UNCHANGED <<run, local_year, browser>>

FeedEntry == \E entry \in FeedEntries : FeedEntryOf(entry)

FeedEnd ==
  /\ pc = "feed"
  /\ UNCHANGED dispatched
  /\ NextSource(all_new_articles)
  /\ UNCHANGED <<run, local_year, n, failed, browser>>

\* ---- playwright
PlaywrightUnavailable ==
  /\ Dispatching("playwright")
  /\ NextSource(all_new_articles)
  /\ UNCHANGED <<run, local_year, n, failed, browser>>

\* sync_playwright() or the launch raises (no browser yet), or new_context,
\* new_page, goto, wait_for_selector or query_selector_all does (browser
\* launched): the except clause returns [] and browser.close() is not reached.
PlaywrightLoadFails ==
  /\ Dispatching("playwright")
  /\ \E launched \in BOOLEAN :
       browser' = IF launched THEN "open" ELSE "none"
  /\ SourceFails(PlaywrightCatches("Exception"), Extend(all_new_articles, <<>>))
  /\ UNCHANGED <<run, local_year, n>>

PlaywrightLoad ==
  /\ Dispatching("playwright")
  /\ pc' = "playwright"
  /\ browser' = "open"
  /\ articles' = <<>>
  /\ seen_urls' = {}
  /\ UNCHANGED <<run, local_year, idx, all_new_articles, sitemap_dates, n, failed, shadow, usable>>

PlaywrightCard ==
  /\ pc = "playwright"
  /\ UNCHANGED dispatched
  /\ n < MaxItems
  /\ \E card \in UberCards, current_year \in LocalYears(now) :
       LET st == [seen |-> seen_urls, articles |-> articles]
           st2 == UberCardStep(st, card, Source, cutoff_date, current_year)
       IN /\ seen_urls' = st2.seen
          /\ articles' = st2.articles
          /\ local_year' = IF UberReadsClock(st, card, Source) THEN current_year
                           ELSE local_year
          /\ usable' = IF UberCardUsable(card, Source, cutoff_date, current_year)
                       THEN usable \cup {normalize_url(UberCleanUrl(card.href, Source.base_url))}
                       ELSE usable
  /\ n' = n + 1
  /\ UNCHANGED <<run, idx, pc, all_new_articles, sitemap_dates, failed, shadow, browser>>

\* The end of scrape_uber_engineering after the cards were read. `reached` is
\* how far it gets: "raises" (something raises before browser.close() is
\* called), "close" (browser.close() is called and it, or the exit of the
\* `with sync_playwright()` block after it, raises), "return" (the articles
\* are returned). In the first two the except clause returns [].
PlaywrightClose ==
  /\ pc = "playwright"
  /\ UNCHANGED dispatched
  /\ \E reached \in {"raises", "close", "return"} :
       /\ browser' = IF reached = "raises" THEN browser ELSE "closed"
       /\ IF reached = "return"
          THEN /\ NextSource(Extend(all_new_articles, PlaywrightResult(articles, TRUE)))
               /\ UNCHANGED failed
          ELSE SourceFails(PlaywrightCatches("Exception"),
                           Extend(all_new_articles, PlaywrightResult(articles, FALSE)))
  /\ UNCHANGED <<run, local_year, n>>

\* ---- selector-driven HTML
\* The GET raises a RequestException, or something else is raised by the GET,
\* by BeautifulSoup or by soup.select(source['article_selector']), which no
\* except clause of the branch covers.
HtmlFetchFails ==
  /\ Dispatching("html")
  /\ \E exc \in {"RequestException", "Exception"} :
       SourceFails(HtmlCatches(exc), all_new_articles)
  /\ UNCHANGED <<run, local_year, n, browser>>

HtmlFetch ==
  /\ Dispatching("html")
  /\ pc' = "html"
  /\ UNCHANGED <<run, local_year, idx, all_new_articles, articles, seen_urls, sitemap_dates, n,
                 failed, shadow, browser, usable>>

HtmlArticle ==
  /\ pc = "html"
  /\ UNCHANGED dispatched
  /\ n < MaxItems
  /\ \E item \in HtmlItems :
       all_new_articles' = HtmlArticleStep(all_new_articles, item, Source, cutoff_date)
  /\ n' = n + 1
  /\ UNCHANGED <<run, local_year, idx, pc, articles, seen_urls, sitemap_dates, failed, shadow,
                 browser, usable>>

HtmlEnd ==
  /\ pc = "html"
  /\ UNCHANGED dispatched
  /\ NextSource(all_new_articles)
  /\ UNCHANGED <<run, local_year, n, failed, browser>>

\* ---- return all_new_articles
Return ==
  /\ pc = "dispatch"
  /\ UNCHANGED dispatched
  /\ idx > Len(sources)
  /\ pc' = "done"
  /\ UNCHANGED <<run, local_year, idx, all_new_articles, articles, seen_urls, sitemap_dates, n,
                 failed, shadow, browser, usable>>

\* ---- main: what follows its call check_for_new_articles(lookback_hours=24)
Main ==
  /\ pc = "done"
  /\ lookback_hours = HoursPerDay
  /\ pc' = "exit"
  /\ IF MainNotifies(all_new_articles)
     THEN \E env \in Environments, outcome \in PostOutcomes :
            LET message == Message(all_new_articles)
                r == send_telegram_notification(message, env, outcome)
            IN /\ calls' = Append(calls, message)
               /\ posts' = posts \o r.posts
               /\ sent' = r.ret
               /\ reply' = IF r.ret = "raised" THEN NoReply
                           ELSE [text |-> "Sent notification for {count} articles.",
                                 count |-> Len(all_new_articles)]
     ELSE /\ reply' = [text |-> "No new articles found.", count |-> 0]
          /\ UNCHANGED <<calls, posts, sent>>
  /\ UNCHANGED <<now, lookback_hours, cutoff_date, sources, call, idx, all_new_articles,
                 articles, seen_urls, sitemap_dates, n, failed, dispatched, shadow,
                 browser, usable, local_year>>

Next ==
  \/ AnthropicFetchFails
  \/ AnthropicFetch
  \/ AnthropicLink
  \/ AnthropicReturn
  \/ FeedParseFails
  \/ FeedParse
  \/ FeedEntry
  \/ FeedEnd
  \/ PlaywrightUnavailable
  \/ PlaywrightLoadFails
  \/ PlaywrightLoad
  \/ PlaywrightCard
  \/ PlaywrightClose
  \/ HtmlFetchFails
  \/ HtmlFetch
  \/ HtmlArticle
  \/ HtmlEnd
  \/ Return
  \/ Main

Spec == Init /\ [][Next]_vars

\* ------------------------------------------- the helper functions on their own
\* <url> elements of a sitemap document, and documents of up to MaxUrls of them.
SitemapUrlTags ==
  [loc : {NoElem, NoneStr, <<"G", "/", "a">>, <<"G", "/", "a", "/">>, <<"G", "/", "b", "?", "q">>},
   lastmod : {NoTag, NoText, BadText, DateText(5, 0 - 1)}]

SitemapDocs ==
  [ok : BOOLEAN,
   urls : UNION {[1..k -> SitemapUrlTags] : k \in 0..MaxUrls}]

\* Detail pages as fetch_title_from_page sees them.
TitlePages ==
  [ok : {TRUE}, title_ok : BOOLEAN,
   og : {NoElem, <<>>, <<" ">>, <<" ", "A">>},
   tw : {NoElem, <<" ">>, <<"W">>},
   h1 : {NoElem, <<>>, <<"B", " ">>},
   title : {NoElem, <<" ">>, <<"C", " ", "|", " ", "S">>, <<" ", "|", " ", "S">>},
   meta : {NoText}, published : {NoText}]

\* Calls of send_telegram_notification: the message, the environment it
\* reads and what the POST does.
NotifierCalls ==
  [message : {<<"Test message">>, <<"Test message from Anthropic Scraper">>}, env : Environments, outcome : PostOutcomes]

Pending == <<"<pending>">>

\* No run of check_for_new_articles is in progress.
NoRun ==
  /\ now \in NowHours
  /\ lookback_hours = HoursPerDay
  /\ cutoff_date = CutoffDate(now, lookback_hours)
  /\ sources = SOURCES
  /\ idx = 1
  /\ all_new_articles = <<>>
  /\ articles = <<>>
  /\ seen_urls = {}
  /\ sitemap_dates = EmptyMap
  /\ n = 0
  /\ failed = {}
  /\ dispatched = {}
  /\ shadow = NoState
  /\ browser = "none"
  /\ local_year = NoYear
  /\ usable = {}
  /\ calls = <<>>
  /\ posts = <<>>
  /\ sent = NotCalled
  /\ reply = NoReply

HelperInit ==
  /\ NoRun
  /\ pc = "call"
  /\ call \in [fn : {"fetch_sitemap_dates"}, arg : SitemapDocs, ret : {Pending}]
             \cup [fn : {"fetch_title_from_page"}, arg : TitlePages, ret : {Pending}]
             \cup [fn : {"send_telegram_notification"}, arg : NotifierCalls, ret : {Pending}]

Returns(value) ==
  /\ call' = [call EXCEPT !.ret = value]
  /\ pc' = "returned"
  /\ UNCHANGED <<now, lookback_hours, cutoff_date, sources, idx, all_new_articles,
                 articles, seen_urls, sitemap_dates, n, failed, dispatched, shadow,
                 browser, usable, local_year, caller>>

FetchSitemapDates ==
  /\ pc = "call"
  /\ call.fn = "fetch_sitemap_dates"
  /\ Returns(fetch_sitemap_dates(call.arg))

FetchTitleFromPage ==
  /\ pc = "call"
  /\ call.fn = "fetch_title_from_page"
  /\ Returns(fetch_title_from_page(call.arg))

SendTelegramNotification ==
  /\ pc = "call"
  /\ call.fn = "send_telegram_notification"
  /\ Returns(send_telegram_notification(call.arg.message, call.arg.env, call.arg.outcome))

HelperNext ==
  \/ FetchSitemapDates
  \/ FetchTitleFromPage
  \/ SendTelegramNotification

HelperSpec == HelperInit /\ [][HelperNext]_vars


\* ================================================================ properties
Range(list) == {list[i] : i \in DOMAIN list}
SourceIdx(name) == CHOOSE i \in 1..Len(sources) : sources[i].name = name
SourcesOf(list) == {a.source : a \in Range(list)}
IsPrefix(a, b) == Len(a) <= Len(b) /\ SubSeq(b, 1, Len(a)) = a
\* What the run has emitted so far: the aggregate and the running scraper's list.
Emitted == Range(all_new_articles) \cup Range(articles)

\* C1: every article emitted by any strategy, for every lookback window, has a
\* resolved publish date whose calendar date is on or after cutoff_date, and
\* cutoff_date is (now - lookback_hours).date(), the same for the whole run.
C1_NoStaleArticle ==
  /\ cutoff_date = CutoffDate(now, lookback_hours)
  /\ \A a \in Emitted : a.timestamp # NoneTs /\ a.timestamp.day >= cutoff_date

\* A finished run of the three configured sources that emitted one article each.
C1_Witness ==
  /\ pc = "done"
  /\ Len(all_new_articles) = 3
  /\ SourcesOf(all_new_articles) = {SOURCES[i].name : i \in 1..3}

\* C2: no two articles emitted for one source (feed, semantic-HTML or
\* rendered-page strategy) have the same normalized URL.
C2_NoDuplicateUrl ==
  sources = SOURCES => \A i, j \in DOMAIN all_new_articles :
    (i # j /\ all_new_articles[i].source = all_new_articles[j].source)
      => normalize_url(all_new_articles[i].url) # normalize_url(all_new_articles[j].url)

\* C3: whatever the outcomes of the sources of SOURCES, no exception leaves
\* check_for_new_articles, it returns its list, and every source, also one
\* that follows a failing source, is dispatched to its strategy.
C3_NoExceptionEscapes ==
  sources = SOURCES =>
    /\ pc # "raised"
    /\ \A i \in failed : \A j \in (i + 1)..(idx - 1) : j \in dispatched
    /\ pc = "done" => dispatched = 1..Len(sources)

\* The first two sources failed, the run finished and the third emitted.
C3_Witness ==
  /\ pc = "done"
  /\ sources = SOURCES
  /\ failed = {1, 2}
  /\ dispatched = {1, 2, 3}
  /\ \E a \in Range(all_new_articles) : a.source = SOURCES[3].name

\* C4: a source whose strategy ended in an exception contributes no article.
C4_FailedSourceContributesNothing ==
  sources = SOURCES => \A a \in Range(all_new_articles) : SourceIdx(a.source) \notin failed

\* C5: every article emitted under the configured SOURCES has a non-empty
\* title, a non-empty URL and a resolved timestamp.
C5_TitleUrlDatePresent ==
  sources = SOURCES => \A a \in Emitted : Truthy(a.title) /\ Truthy(a.url) /\ a.timestamp # NoneTs

\* C6: the url of every article emitted by the feed, semantic-HTML and
\* rendered-page strategies is canonical: normalize_url leaves it unchanged.
C6_UrlIsCanonical ==
  sources = SOURCES => \A a \in Emitted : a.url = normalize_url(a.url)

\* The aggregate lists its articles source by source, in the order of SOURCES.
C7_OrderedBySource ==
  \A i, j \in DOMAIN all_new_articles :
    i < j => SourceIdx(all_new_articles[i].source) <= SourceIdx(all_new_articles[j].source)

\* One step only appends: what is in a list stays where it is, what is new
\* comes after it and belongs to the source being processed.
C7_AppendOnly ==
  /\ IsPrefix(all_new_articles, all_new_articles')
  /\ \A k \in (Len(all_new_articles) + 1)..Len(all_new_articles') :
       all_new_articles'[k].source = Source.name
  /\ (pc' = pc /\ pc \in {"anthropic", "playwright"}) => IsPrefix(articles, articles')
  /\ (pc \in {"anthropic", "playwright"} /\ pc' = "dispatch")
       => all_new_articles' \in {all_new_articles, all_new_articles \o articles}

\* C7: the returned list is ordered by source in the order of SOURCES and,
\* within a source, by discovery: articles are only ever appended, each to
\* the end and under the source being processed, and nothing already in the
\* list moves (no re-sorting, no interleaving).
C7_DiscoveryOrder == [](C7_OrderedBySource) /\ [][C7_AppendOnly]_vars

\* Two articles of one source, the later-dated first, followed by an article
\* of another source.
C7_Witness ==
  /\ pc = "done"
  /\ Len(all_new_articles) = 3
  /\ all_new_articles[1].source = all_new_articles[2].source
  /\ all_new_articles[1].date > all_new_articles[2].date
  /\ all_new_articles[3].source # all_new_articles[2].source

\* The date the fallback chain of the feed strategy resolves for an entry.
C8_ChainDate(entry) ==
  IF entry.published # NoDay THEN [day |-> entry.published, utc |-> entry.published]
  ELSE IF entry.updated # NoDay THEN [day |-> entry.updated, utc |-> entry.updated]
  ELSE IF /\ normalize_url(entry.link) \in DOMAIN sitemap_dates
          /\ sitemap_dates[normalize_url(entry.link)].k = "ok"
       THEN LET lastmod == sitemap_dates[normalize_url(entry.link)]
            IN [day |-> lastmod.day, utc |-> lastmod.day + lastmod.shift]
  ELSE NoneTs

\* Reading `entry` emits it with that date if it is on or after the cutoff,
\* skips it otherwise, and stays in the loop over the feed.
C8_EntryStep(entry) ==
  (FeedEntryOf(entry) /\ ~FeedEntryRaises(entry)) =>
    LET d == C8_ChainDate(entry)
    IN /\ pc' = "feed"
       /\ all_new_articles' =
            IF d # NoneTs /\ d.day >= cutoff_date
            THEN Append(all_new_articles, Article(Source.name, entry.title, d, entry.link))
            ELSE all_new_articles

\* C8: the date of a feed entry is its native published (else updated)
\* timestamp, and then the sitemap is not consulted; otherwise the parseable
\* lastmod the sitemap index holds for normalize_url(entry.link); otherwise
\* the entry is skipped.  Either way the loop goes on to the next entry.
C8_FeedDateChain ==
  [][(pc = "feed" /\ n' = n + 1) => \A entry \in FeedEntries : C8_EntryStep(entry)]_vars

\* Three entries read: one emitted with a sitemap date (only a lastmod carries
\* an offset), one emitted with its native date, one skipped.
C8_Witness ==
  /\ pc = "feed"
  /\ n = 3
  /\ Len(all_new_articles) = 2
  /\ \E a \in Range(all_new_articles) : a.timestamp.utc # a.timestamp.day
  /\ \E a \in Range(all_new_articles) : a.timestamp.utc = a.timestamp.day

\* C9: in the semantic-HTML strategy a link whose detail-page fetch fails is
\* dropped and the other links are emitted exactly as if it were not on the
\* page.
C9_OtherCandidatesUnaffected ==
  pc = "anthropic" => articles = shadow.articles

\* C10: a failure while reading one item drops that item only: the loop over
\* the feed or listing goes on with the items after it.
C10_ItemFailureKeepsLoop ==
  [][(pc \in {"anthropic", "feed", "playwright", "html"} /\ n' = n + 1) => pc' = pc]_vars

\* A <url> entry with a location (a non-empty <loc>) and a <lastmod>.
C11_HasLocAndLastmod(u) == Truthy(u.loc) /\ u.loc # NoElem /\ u.lastmod # NoTag

\* C11: for a sitemap that was fetched and parsed, fetch_sitemap_dates returns
\* normalize_url(loc) -> lastmod for exactly the <url> entries that have a
\* location and a last-modified value; an entry that lacks one of them is left
\* out and takes no complete entry with it.

C11_CompleteEntriesMapped ==
  (pc = "returned" /\ call.fn = "fetch_sitemap_dates" /\ call.arg.ok) =>
    LET urls == call.arg.urls
        complete == {i \in DOMAIN urls : C11_HasLocAndLastmod(urls[i])}
    IN /\ DOMAIN call.ret = {normalize_url(urls[i].loc) : i \in complete}
       /\ \A key \in DOMAIN call.ret :
            \E i \in complete : /\ normalize_url(urls[i].loc) = key
                                /\ call.ret[key] = urls[i].lastmod

\* The four probes of a page in priority order, each as its stripped value
\* (empty when the element is absent).
C12_Probes(page) ==
  << IF page.og = NoElem THEN <<>> ELSE Strip(page.og),
     IF page.tw = NoElem THEN <<>> ELSE Strip(page.tw),
     IF page.h1 = NoElem THEN <<>> ELSE Strip(page.h1),
     IF page.title = NoElem THEN <<>> ELSE StripSiteSuffix(Strip(page.title)) >>

\* C12: for a fetched page fetch_title_from_page returns the value of the
\* first probe (og:title, twitter:title, first <h1>, <title> without its site
\* suffix) that is non-empty after stripping, passing over probes that are
\* present but empty or blank, and returns "no title" only when all four are
\* empty.
C12_FirstNonEmptyProbe ==
  (pc = "returned" /\ call.fn = "fetch_title_from_page" /\ call.arg.title_ok) =>
    LET probes == C12_Probes(call.arg)
        hits == {i \in 1..4 : probes[i] # <<>>}
    IN call.ret = IF hits = {} THEN NoneStr ELSE probes[Min(hits)]

\* C13: send_telegram_notification returns False without any HTTP request when
\* TELEGRAM_BOT_TOKEN or TELEGRAM_CHAT_ID is unset or empty; it returns True
\* only when both are set and the POST ended with a success status; a
\* transport failure or an error status gives False, never an exception.
C13_NotifierResult ==
  (pc = "returned" /\ call.fn = "send_telegram_notification") =>
    LET env == call.arg.env
        missing == \E v \in {env.TELEGRAM_BOT_TOKEN, env.TELEGRAM_CHAT_ID} : v \in {NoneStr, <<>>}
    IN /\ call.ret.ret \in {"True", "False"}
       /\ missing => (call.ret.ret = "False" /\ call.ret.posts = <<>>)
       /\ call.ret.ret = "True" =>
            /\ ~missing
            /\ call.arg.outcome = "ok"
            /\ call.ret.posts = <<[url |-> <<"bot", env.TELEGRAM_BOT_TOKEN, "sendMessage">>,
                                   chat_id |-> env.TELEGRAM_CHAT_ID,
                                   text |-> call.arg.message]>>
       /\ call.arg.outcome # "ok" => call.ret.ret = "False"

\* Both credentials are set, the POST was made and got an error status: False.
C13_Witness ==
  /\ pc = "returned"
  /\ call.fn = "send_telegram_notification"
  /\ call.arg.outcome = "status"
  /\ Len(call.ret.posts) = 1
  /\ call.ret.ret = "False"

\* C14: in one invocation of main, send_telegram_notification is called
\* exactly once when check_for_new_articles returned articles, with one
\* message that lists every article in the order of the result, and is not
\* called when the result is empty: main then returns "No new articles
\* found." and nothing is sent.
C14_NotifiedOnce ==
  /\ pc # "exit" => (calls = <<>> /\ posts = <<>> /\ sent = NotCalled)
  /\ pc = "exit" =>
       IF all_new_articles # <<>>
       THEN /\ Len(calls) = 1
            /\ Len(calls[1]) = Len(all_new_articles) + 1
            /\ calls[1][1].found = Len(all_new_articles)
            /\ \A i \in DOMAIN all_new_articles :
                 /\ calls[1][i + 1].title = all_new_articles[i].title
                 /\ calls[1][i + 1].url = all_new_articles[i].url
                 /\ calls[1][i + 1].date = all_new_articles[i].date
            /\ Len(posts) <= 1
            /\ sent # NotCalled
       ELSE /\ calls = <<>>
            /\ posts = <<>>
            /\ sent = NotCalled
            /\ reply.text = "No new articles found."

\* main has returned after one notification, posted, that lists two articles
\* of different sources.
C14_Witness ==
  /\ pc = "exit"
  /\ Len(all_new_articles) = 2
  /\ all_new_articles[1].source # all_new_articles[2].source
  /\ Len(calls) = 1
  /\ Len(posts) = 1
  /\ sent = "True"

\* C16: within one listing page (semantic-HTML and rendered-page strategies),
\* for every normalized article URL that some link read so far gives a usable
\* title and a date on or after cutoff_date, exactly one article with that URL
\* is emitted, whatever the order of the links to it.
C16_OneArticlePerUsableUrl ==
  pc \in {"anthropic", "playwright"} =>
    \A u \in usable :
      Cardinality({i \in DOMAIN articles : normalize_url(articles[i].url) = u}) = 1

\* C17: a date token without a 4-digit year is never resolved to a date after
\* the day of the run, so no article of the rendered-page strategy is emitted
\* with a date in the future.
C17_NoFutureDate ==
  \A a \in Emitted :
    a.source = "Uber Engineering" => a.timestamp.day <= now \div HoursPerDay

\* C18: the calendar date compared with cutoff_date is the UTC date of the
\* resolved timestamp, also when the timestamp carries an offset: no article
\* whose UTC date is before cutoff_date is emitted.
C18_UtcDateCompared ==
  sources = SOURCES => \A a \in Emitted : a.timestamp.utc >= cutoff_date

====
